---- MODULE Spec2Model ----
(***************************************************************************)
(* PerformanceCalculator (core/performance_calculator.py): one call of     *)
(* calculate_sequential, calculate_threading or calculate_multiprocessing  *)
(* on a range (i, j), with its worker threads / worker processes.          *)
(*                                                                         *)
(* Floats: a float value x is represented by the integer x * Scale, where  *)
(* Scale makes every term 1/(k*k), 1 <= |k| <= 10, an exact integer. The   *)
(* rounding of float64 addition (relative error about 1e-16 per addition)  *)
(* is not represented; the order in which partials are added is.           *)
(***************************************************************************)
EXTENDS Integers, Sequences, FiniteSets, TLC

\* ---------------------------------------------------------------- bounds
MaxNegLower == 1       \* i ranges over -MaxNegLower..MaxLower
MaxLower == 2          \* upper end of the range of i
MaxUpper == 3          \* j ranges over 0..MaxUpper
MaxCpu   == 9          \* os.cpu_count() ranges over 1..MaxCpu

\* ------------------------------------------------------- program constants
ThreadLimit == 8       \* min(os.cpu_count(), 8)

Scale == 2520 * 2520   \* 1.0 ; 2520 = lcm(1..10)

Modes == {"sequential", "threading", "multiprocessing"}

VARIABLES
    mode,          \* which strategy is called
    i, j,          \* the arguments of the call
    cpu_count,     \* what os.cpu_count() returns
    pc,            \* position of the calling thread
    tracing,       \* tracemalloc is tracing
    k,             \* sequential: the loop variable
    t,             \* threading / multiprocessing: the dispatch loop variable
    futures,       \* threading: the futures list, in submission order
    processes,     \* multiprocessing: the processes list, in start order
    result_list,   \* multiprocessing: the manager list of partials
    nxt,           \* position of the "for future in futures" / "for proc in processes" loop
    result,        \* the accumulator
    summed,        \* history: the chunk indices whose partial was added, in order
    visited,       \* history: the k whose term the sequential loop added, in order
    metrics        \* the returned PerformanceMetrics, or NoMetrics

vars == <<mode, i, j, cpu_count, pc, tracing, k, t, futures, processes,
          result_list, nxt, result, summed, visited, metrics>>

NoMetrics == [processing_mode |-> "none"]

Min(a, b) == IF a <= b THEN a ELSE b
Max(a, b) == IF a >= b THEN a ELSE b

\* 1.0 / (k * k), for k # 0
Term(n) == Scale \div (n * n)

\* calculate_chunk(start, end): the terms are added in ascending k
RECURSIVE ChunkFrom(_, _, _)
ChunkFrom(acc, start, end) ==
    IF start > end THEN acc ELSE ChunkFrom(acc + Term(start), start + 1, end)

calculate_chunk(start, end) == ChunkFrom(0, start, end)

\* 1.0 / (k * k) raises ZeroDivisionError when the chunk contains k = 0
Raises(start, end) == start <= 0 /\ 0 <= end

\* num_threads without the limit of 8
num_threads_uncapped == cpu_count

num_threads == Min(cpu_count, ThreadLimit)
num_processes == Min(cpu_count, ThreadLimit)

total_range == j - i + 1

\* chunk_size without the max(1, ...) guard
chunk_size_floor(n) == total_range \div n

\* Python's // is floor division; TLA+'s \div is floor division for a
\* positive divisor.
chunk_size(n) == Max(1, total_range \div n)

chunk_start(n, idx) == i + idx * chunk_size(n)
\* chunk_end one past the last index of the chunk
chunk_end_inclusive(n, idx) == Min(chunk_start(n, idx) + chunk_size(n), j)

chunk_end(n, idx) == Min(chunk_start(n, idx) + chunk_size(n) - 1, j)

PerformanceMetrics(m, r, c) ==
    [processing_mode |-> m, lower_bound |-> i, upper_bound |-> j,
     result_value |-> r, cores_used |-> c]

Init ==
    /\ mode \in Modes
    /\ i \in (0 - MaxNegLower)..MaxLower
    /\ j \in 0..MaxUpper
    /\ cpu_count \in 1..MaxCpu
    /\ pc = "call"
    /\ tracing = FALSE
    /\ k = 0
    /\ t = 0
    /\ futures = <<>>
    /\ processes = <<>>
    /\ result_list = <<>>
    /\ nxt = 1
    /\ result = 0
    /\ summed = <<>>
    /\ visited = <<>>
    /\ metrics = NoMetrics

\* ------------------------------------------------------------ sequential

\* SeqBegin with the loop started at lower + 1
SeqBegin_SkipFirst ==
    /\ pc = "call" /\ mode = "sequential"
    /\ tracing' = TRUE
    /\ result' = 0
    /\ k' = i + 1
    /\ pc' = "seq_loop"
    /\ UNCHANGED <<mode, i, j, cpu_count, t, futures, processes, result_list,
                   nxt, summed, visited, metrics>>

\* lines 26-35: start monitoring, result = 0.0, enter the loop
SeqBegin ==
    /\ pc = "call" /\ mode = "sequential"
    /\ tracing' = TRUE
    /\ result' = 0
    /\ k' = i
    /\ pc' = "seq_loop"
    /\ UNCHANGED <<mode, i, j, cpu_count, t, futures, processes, result_list,
                   nxt, summed, visited, metrics>>

\* lines 36-37: one iteration of "for k in range(i, j + 1)"
SeqStep ==
    /\ pc = "seq_loop" /\ k <= j
    /\ IF k = 0
       THEN /\ pc' = "raised"
            /\ UNCHANGED <<result, visited, k>>
       ELSE /\ result' = result + Term(k)
            /\ visited' = Append(visited, k)
            /\ k' = k + 1
            /\ pc' = pc
    /\ UNCHANGED <<mode, i, j, cpu_count, tracing, t, futures, processes,
                   result_list, nxt, summed, metrics>>

\* lines 39-60: stop monitoring and return the record
SeqReturn ==
    /\ pc = "seq_loop" /\ k > j
    /\ tracing' = FALSE
    /\ metrics' = PerformanceMetrics("sequential", result, 1)
    /\ pc' = "returned"
    /\ UNCHANGED <<mode, i, j, cpu_count, k, t, futures, processes,
                   result_list, nxt, result, summed, visited>>

\* ------------------------------------------------------------- threading

\* lines 65-83: start monitoring, result = 0.0, open the executor
ThrBegin ==
    /\ pc = "call" /\ mode = "threading"
    /\ tracing' = TRUE
    /\ result' = 0
    /\ t' = 0
    /\ futures' = <<>>
    /\ pc' = "thr_submit"
    /\ UNCHANGED <<mode, i, j, cpu_count, k, processes, result_list, nxt,
                   summed, visited, metrics>>

\* lines 84-88: one iteration of "for t in range(num_threads)"; the chunk
\* is submitted only if it starts inside the range
ThrSubmit ==
    /\ pc = "thr_submit" /\ t < num_threads
    /\ futures' =
          IF chunk_start(num_threads, t) <= j
          THEN Append(futures, [start |-> chunk_start(num_threads, t),
                                end   |-> chunk_end(num_threads, t),
                                state |-> "pending",
                                value |-> 0])
          ELSE futures
    /\ t' = t + 1
    /\ UNCHANGED <<mode, i, j, cpu_count, pc, tracing, k, processes,
                   result_list, nxt, result, summed, visited, metrics>>

\* line 90: the submission loop is over, the aggregation loop starts
ThrSubmitted ==
    /\ pc = "thr_submit" /\ t >= num_threads
    /\ nxt' = 1
    /\ pc' = "thr_collect"
    /\ UNCHANGED <<mode, i, j, cpu_count, tracing, k, t, futures, processes,
                   result_list, result, summed, visited, metrics>>

\* a pool thread takes a queued work item
ThrWorkerStart(w) ==
    /\ w \in 1..Len(futures)
    /\ futures[w].state = "pending"
    /\ futures' = [futures EXCEPT ![w].state = "running"]
    /\ UNCHANGED <<mode, i, j, cpu_count, pc, tracing, k, t, processes,
                   result_list, nxt, result, summed, visited, metrics>>

\* lines 78-79: worker(start, end) returns calculate_chunk(start, end), or
\* raises; the future holds the value or the exception
ThrWorkerFinish(w) ==
    /\ w \in 1..Len(futures)
    /\ futures[w].state = "running"
    /\ futures' =
          IF Raises(futures[w].start, futures[w].end)
          THEN [futures EXCEPT ![w].state = "failed"]
          ELSE [futures EXCEPT ![w].state = "done",
                               ![w].value = calculate_chunk(futures[w].start,
                                                            futures[w].end)]
    /\ UNCHANGED <<mode, i, j, cpu_count, pc, tracing, k, t, processes,
                   result_list, nxt, result, summed, visited, metrics>>

\* ThrCollect over the futures in completion order (as_completed)
ThrCollect_AsCompleted ==
    /\ pc = "thr_collect" /\ nxt <= Len(futures)
    /\ \E w \in 1..Len(futures) :
          /\ futures[w].state = "done"
          /\ \A n \in 1..Len(summed) : summed[n] # w
          /\ result' = result + futures[w].value
          /\ summed' = Append(summed, w)
    /\ nxt' = nxt + 1
    /\ UNCHANGED <<mode, i, j, cpu_count, pc, tracing, k, t, futures,
                   processes, result_list, visited, metrics>>

\* ThrCollect that does not wait for the future to resolve
ThrCollect_NoWait ==
    /\ pc = "thr_collect" /\ nxt <= Len(futures)
    /\ futures[nxt].state # "failed"
    /\ result' = result + futures[nxt].value
    /\ summed' = Append(summed, nxt)
    /\ nxt' = nxt + 1
    /\ UNCHANGED <<mode, i, j, cpu_count, pc, tracing, k, t, futures,
                   processes, result_list, visited, metrics>>

\* lines 90-91: one iteration of "for future in futures": future.result()
\* blocks until that future is resolved, then its value is added
ThrCollect ==
    /\ pc = "thr_collect" /\ nxt <= Len(futures)
    /\ futures[nxt].state = "done"
    /\ result' = result + futures[nxt].value
    /\ summed' = Append(summed, nxt)
    /\ nxt' = nxt + 1
    /\ UNCHANGED <<mode, i, j, cpu_count, pc, tracing, k, t, futures,
                   processes, result_list, visited, metrics>>

\* ThrCollectRaise with the worker's exception swallowed: the loop goes on
ThrCollectRaise_Swallowed ==
    /\ pc = "thr_collect" /\ nxt <= Len(futures)
    /\ futures[nxt].state = "failed"
    /\ nxt' = nxt + 1
    /\ UNCHANGED <<mode, i, j, cpu_count, pc, tracing, k, t, futures,
                   processes, result_list, result, summed, visited, metrics>>

\* line 91: future.result() re-raises the worker's exception; the with
\* block's exit (executor.shutdown(wait=True)) then waits for the workers
ThrCollectRaise ==
    /\ pc = "thr_collect" /\ nxt <= Len(futures)
    /\ futures[nxt].state = "failed"
    /\ pc' = "thr_shutdown"
    /\ UNCHANGED <<mode, i, j, cpu_count, tracing, k, t, futures, processes,
                   result_list, nxt, result, summed, visited, metrics>>

\* line 82 (exit of the with block on the exception path): every pool
\* thread has finished; the exception leaves calculate_threading
ThrShutdownRaise ==
    /\ pc = "thr_shutdown"
    /\ \A w \in 1..Len(futures) : futures[w].state \in {"done", "failed"}
    /\ pc' = "raised"
    /\ UNCHANGED <<mode, i, j, cpu_count, tracing, k, t, futures, processes,
                   result_list, nxt, result, summed, visited, metrics>>

\* lines 93-112: the loop is over; stop monitoring and return the record
ThrReturn ==
    /\ pc = "thr_collect" /\ nxt > Len(futures)
    /\ tracing' = FALSE
    /\ metrics' = PerformanceMetrics("threading", result, num_threads)
    /\ pc' = "returned"
    /\ UNCHANGED <<mode, i, j, cpu_count, k, t, futures, processes,
                   result_list, nxt, result, summed, visited>>

\* -------------------------------------------------------- multiprocessing

\* lines 117-136: start monitoring, open the manager, result_list = []
MpBegin ==
    /\ pc = "call" /\ mode = "multiprocessing"
    /\ tracing' = TRUE
    /\ t' = 0
    /\ result_list' = <<>>
    /\ processes' = <<>>
    /\ pc' = "mp_start"
    /\ UNCHANGED <<mode, i, j, cpu_count, k, futures, nxt, result, summed,
                   visited, metrics>>

\* MpStart that goes on until the range is covered instead of stopping
\* after num_processes iterations
MpStart_UntilCovered ==
    /\ pc = "mp_start" /\ chunk_start(num_processes, t) <= j
    /\ processes' =
          Append(processes, [start |-> chunk_start(num_processes, t),
                             end   |-> chunk_end(num_processes, t),
                             state |-> "running"])
    /\ t' = t + 1
    /\ UNCHANGED <<mode, i, j, cpu_count, pc, tracing, k, futures,
                   result_list, nxt, result, summed, visited, metrics>>

\* lines 138-144: one iteration of "for p in range(num_processes)"; the
\* process is created and started only if its chunk starts inside the range
MpStart ==
    /\ pc = "mp_start" /\ t < num_processes
    /\ processes' =
          IF chunk_start(num_processes, t) <= j
          THEN Append(processes, [start |-> chunk_start(num_processes, t),
                                  end   |-> chunk_end(num_processes, t),
                                  state |-> "running"])
          ELSE processes
    /\ t' = t + 1
    /\ UNCHANGED <<mode, i, j, cpu_count, pc, tracing, k, futures,
                   result_list, nxt, result, summed, visited, metrics>>

\* MpStarted with the loop bound off by one: the start loop is never left
MpStarted_OffByOne ==
    /\ pc = "mp_start" /\ t > num_processes
    /\ nxt' = 1
    /\ pc' = "mp_join"
    /\ UNCHANGED <<mode, i, j, cpu_count, tracing, k, t, futures, processes,
                   result_list, result, summed, visited, metrics>>

\* line 146: the start loop is over, the join loop starts
MpStarted ==
    /\ pc = "mp_start" /\ t >= num_processes
    /\ nxt' = 1
    /\ pc' = "mp_join"
    /\ UNCHANGED <<mode, i, j, cpu_count, tracing, k, t, futures, processes,
                   result_list, result, summed, visited, metrics>>

\* MpWorkerExit that computes its partial but does not append it
MpWorkerExit_NoAppend(w) ==
    /\ w \in 1..Len(processes)
    /\ processes[w].state = "running"
    /\ processes' = [processes EXCEPT ![w].state =
                        IF Raises(processes[w].start, processes[w].end)
                        THEN "crashed" ELSE "exited"]
    /\ UNCHANGED <<mode, i, j, cpu_count, pc, tracing, k, t, futures, nxt,
                   result_list, result, summed, visited, metrics>>

\* lines 125-129: cpu_bound_task computes its partial and appends it to the
\* shared list, then the process exits; if the computation raises, nothing
\* is appended and the process exits with a non-zero exit code
MpWorkerExit(w) ==
    /\ w \in 1..Len(processes)
    /\ processes[w].state = "running"
    /\ IF Raises(processes[w].start, processes[w].end)
       THEN /\ processes' = [processes EXCEPT ![w].state = "crashed"]
            /\ UNCHANGED result_list
       ELSE /\ processes' = [processes EXCEPT ![w].state = "exited"]
            /\ result_list' =
                  Append(result_list,
                         [chunk   |-> w,
                          partial |-> calculate_chunk(processes[w].start,
                                                      processes[w].end)])
    /\ UNCHANGED <<mode, i, j, cpu_count, pc, tracing, k, t, futures, nxt,
                   result, summed, visited, metrics>>

\* MpJoin that does not wait for the process to terminate
MpJoin_NoWait ==
    /\ pc = "mp_join" /\ nxt <= Len(processes)
    /\ processes' = [processes EXCEPT ![nxt].state =
                        IF processes[nxt].state = "exited" THEN "joined"
                        ELSE IF processes[nxt].state = "crashed"
                             THEN "joined_crashed"
                             ELSE processes[nxt].state]
    /\ nxt' = nxt + 1
    /\ UNCHANGED <<mode, i, j, cpu_count, pc, tracing, k, t, futures,
                   result_list, result, summed, visited, metrics>>

\* lines 146-147: one iteration of "for proc in processes": proc.join()
\* returns once that process has terminated, whatever its exit code
MpJoin ==
    /\ pc = "mp_join" /\ nxt <= Len(processes)
    /\ processes[nxt].state \in {"exited", "crashed"}
    /\ processes' = [processes EXCEPT ![nxt].state =
                        IF processes[nxt].state = "exited"
                        THEN "joined" ELSE "joined_crashed"]
    /\ nxt' = nxt + 1
    /\ UNCHANGED <<mode, i, j, cpu_count, pc, tracing, k, t, futures,
                   result_list, result, summed, visited, metrics>>

\* sum(result_list): the elements are added in list order
RECURSIVE SumFrom(_, _, _)
SumFrom(acc, list, n) ==
    IF n > Len(list) THEN acc ELSE SumFrom(acc + list[n].partial, list, n + 1)

\* line 149: result = sum(result_list)
MpSum ==
    /\ pc = "mp_join" /\ nxt > Len(processes)
    /\ result' = SumFrom(0, result_list, 1)
    /\ summed' = [n \in 1..Len(result_list) |-> result_list[n].chunk]
    /\ pc' = "mp_summed"
    /\ UNCHANGED <<mode, i, j, cpu_count, tracing, k, t, futures, processes,
                   result_list, nxt, visited, metrics>>

\* lines 151-171: stop monitoring and return the record
MpReturn ==
    /\ pc = "mp_summed"
    /\ tracing' = FALSE
    /\ metrics' = PerformanceMetrics("multiprocessing", result, num_processes)
    /\ pc' = "returned"
    /\ UNCHANGED <<mode, i, j, cpu_count, k, t, futures, processes,
                   result_list, nxt, result, summed, visited>>

Next ==
    \/ SeqBegin
    \/ SeqStep
    \/ SeqReturn
    \/ ThrBegin
    \/ ThrSubmit
    \/ ThrSubmitted
    \/ \E w \in 1..ThreadLimit : ThrWorkerStart(w)
    \/ \E w \in 1..ThreadLimit : ThrWorkerFinish(w)
    \/ ThrCollect
    \/ ThrCollectRaise
    \/ ThrShutdownRaise
    \/ ThrReturn
    \/ MpBegin
    \/ MpStart
    \/ MpStarted
    \/ \E w \in 1..ThreadLimit : MpWorkerExit(w)
    \/ MpJoin
    \/ MpSum
    \/ MpReturn

Spec == Init /\ [][Next]_vars

\* The calling thread keeps running until the call ends, and the operating
\* system schedules every pool thread and every worker process.
Caller ==
    \/ SeqBegin \/ SeqStep \/ SeqReturn
    \/ ThrBegin \/ ThrSubmit \/ ThrSubmitted \/ ThrCollect
    \/ ThrCollectRaise \/ ThrShutdownRaise \/ ThrReturn
    \/ MpBegin \/ MpStart \/ MpStarted \/ MpJoin \/ MpSum \/ MpReturn

\* A worker's step, once enabled, stays enabled until that worker takes it,
\* so fairness on the workers together is all that termination needs.
Workers ==
    \E w \in 1..ThreadLimit :
        ThrWorkerStart(w) \/ ThrWorkerFinish(w) \/ MpWorkerExit(w)

FairSpec ==
    /\ Init /\ [][Next]_vars
    /\ WF_vars(Caller)
    /\ WF_vars(Workers)

\* ---------------------------------------------------------------- claims

ValidRange == i >= 1 /\ j > i

Parallel == mode \in {"threading", "multiprocessing"}

\* the chunks handed to workers so far, in dispatch order
Dispatched == IF mode = "threading" THEN futures ELSE processes

\* the dispatch loop of the threaded / process strategy has run to its end
DispatchDone == Parallel /\ pc \notin {"call", "thr_submit", "mp_start"}

Indices(c) == c.start .. c.end

Size(c) == c.end - c.start + 1

Covered == UNION {Indices(Dispatched[n]) : n \in 1..Len(Dispatched)}

Abs(a) == IF a >= 0 THEN a ELSE -a

\* C1: for a valid range the dispatched chunks are pairwise disjoint and
\* their union is exactly lower..upper (no index dropped, none twice).
C1_Coverage ==
    (ValidRange /\ DispatchDone) =>
        /\ \A a, b \in 1..Len(Dispatched) :
              a # b => Indices(Dispatched[a]) \cap Indices(Dispatched[b]) = {}
        /\ Covered = i..j

\* |a - b| < 1e-9 * |a| for a > 0, on the scaled integers
CloseTo(a, b) == Abs(a - b) <= (a - 1) \div 1000000000

\* C2: for a valid range the value returned by the threaded and by the
\* process strategy agrees with the sequential result (the sum of 1/k^2
\* over lower..upper) to within 1e-9 relative.
C2_CrossStrategyAgreement ==
    (ValidRange /\ Parallel /\ pc = "returned") =>
        CloseTo(calculate_chunk(i, j), metrics.result_value)

\* C3: no dispatched chunk is empty (start <= end); when the range length
\* total is smaller than the worker count N, exactly total chunks of size 1
\* are dispatched; lower = 1, upper = 1 on an 8-way pool gives the single
\* chunk [1, 1].
C3_NoEmptyChunk ==
    Parallel =>
        /\ \A n \in 1..Len(Dispatched) :
              Dispatched[n].start <= Dispatched[n].end
        /\ (DispatchDone /\ total_range >= 1 /\ total_range < num_threads) =>
              /\ Len(Dispatched) = total_range
              /\ \A n \in 1..Len(Dispatched) : Size(Dispatched[n]) = 1
        /\ (DispatchDone /\ i = 1 /\ j = 1 /\ num_threads = 8) =>
              /\ Len(Dispatched) = 1
              /\ Dispatched[1].start = 1 /\ Dispatched[1].end = 1

C3_Witness ==
    /\ pc = "returned" /\ Parallel
    /\ num_threads = 8 /\ i = 1 /\ total_range < num_threads
    /\ Len(Dispatched) = total_range

\* C4: with baseSize = floor(total / N) and remainder = total mod N, the
\* first remainder chunks have size baseSize + 1 and every other chunk has
\* size baseSize, so two chunks differ in size by at most 1.
C4_BalancedSizes ==
    (ValidRange /\ DispatchDone) =>
        LET baseSize  == total_range \div num_threads
            remainder == total_range % num_threads
        IN  /\ \A n \in 1..Len(Dispatched) :
                  Size(Dispatched[n]) =
                      IF n <= remainder THEN baseSize + 1 ELSE baseSize
            /\ \A a, b \in 1..Len(Dispatched) :
                  Abs(Size(Dispatched[a]) - Size(Dispatched[b])) <= 1

\* C5: a call with lower_bound < 1 or upper_bound <= lower_bound starts no
\* worker thread or process, computes no term and returns no record.
C5_InvalidRangeRejected ==
    (i < 1 \/ j <= i) =>
        /\ futures = <<>>
        /\ processes = <<>>
        /\ visited = <<>>
        /\ metrics = NoMetrics

\* C6: in calculate_multiprocessing, once a worker process has failed
\* without delivering its partial, no sum of the other partials is computed
\* and no record is returned.
C6_WorkerFailureFailsCall ==
    (mode = "multiprocessing" /\
     \E w \in 1..Len(processes) :
        processes[w].state \in {"crashed", "joined_crashed"}) =>
        /\ pc \notin {"mp_summed", "returned"}
        /\ metrics = NoMetrics

\* C7: in calculate_multiprocessing the partials are summed in ascending
\* chunk index, whatever the order in which the processes finish.
C7_ProcessSumOrder ==
    (mode = "multiprocessing" /\ pc \in {"mp_summed", "returned"}) =>
        \A a, b \in 1..Len(summed) : a < b => summed[a] < summed[b]

\* C8: in calculate_multiprocessing the sum is computed only after every
\* started process has terminated and been joined, and none is running or
\* unjoined when the call returns.
C8_JoinBeforeSum ==
    (mode = "multiprocessing" /\ pc \in {"mp_summed", "returned"}) =>
        /\ t = num_processes
        /\ \A w \in 1..Len(processes) :
              processes[w].state \in {"joined", "joined_crashed"}

C8_Witness ==
    /\ mode = "multiprocessing" /\ pc = "returned"
    /\ Len(processes) >= 3
    /\ \A w \in 1..Len(processes) : processes[w].state = "joined"
    /\ Len(result_list) = Len(processes)
    /\ result_list[1].chunk # 1

\* C9: in calculate_threading the chunks are submitted in ascending chunk
\* index and their results are added in that submission order, whatever
\* the order in which the worker threads complete.
C9_ThreadSumOrder ==
    mode = "threading" =>
        /\ \A n \in 1..Len(futures) :
              futures[n].start = chunk_start(num_threads, n - 1)
        /\ \A a, b \in 1..Len(futures) :
              a < b => futures[a].start < futures[b].start
        /\ Len(summed) = nxt - 1
        /\ \A n \in 1..Len(summed) : summed[n] = n

\* the third future resolved before the second, the first is aggregated
C9_Witness ==
    /\ mode = "threading" /\ pc = "thr_collect"
    /\ Len(futures) >= 3
    /\ summed = <<1>>
    /\ futures[2].state = "running"
    /\ futures[3].state = "done"

\* C10: calculate_sequential on a valid range adds 1/k^2 once for every k
\* of lower..upper in ascending k, uses no partition and no worker, returns
\* calculate_chunk(lower, upper) and reports cores_used = 1.
C10_Sequential ==
    (mode = "sequential" /\ ValidRange) =>
        /\ futures = <<>> /\ processes = <<>>
        /\ pc = "seq_loop" =>
              /\ visited = [n \in 1..(k - i) |-> i + n - 1]
              /\ result = calculate_chunk(i, k - 1)
        /\ pc = "returned" =>
              /\ visited = [n \in 1..total_range |-> i + n - 1]
              /\ metrics.result_value = calculate_chunk(i, j)
              /\ metrics.cores_used = 1

C10_Witness ==
    /\ mode = "sequential" /\ ValidRange /\ pc = "returned"
    /\ total_range >= 3
    /\ Len(visited) = total_range


\* C11: every successful threaded or process call reports
\* cores_used = min(available_parallelism, 8), which lies in 1..8, whatever
\* the number of chunks dispatched.
C11_CoresUsed ==
    (Parallel /\ pc = "returned") =>
        /\ metrics.cores_used = (IF cpu_count <= 8 THEN cpu_count ELSE 8)
        /\ metrics.cores_used >= 1
        /\ metrics.cores_used <= 8

\* more than 8 cpus, fewer chunks than workers
C11_Witness ==
    /\ Parallel /\ pc = "returned"
    /\ cpu_count > 8
    /\ Len(Dispatched) >= 1 /\ Len(Dispatched) < 8
    /\ metrics.cores_used = 8

\* C12: when a call has ended, by returning a record or by raising, the
\* memory tracing it started is stopped.
C12_TracingStopped ==
    pc \in {"returned", "raised"} => tracing = FALSE

\* C13: in calculate_threading, if a chunk computation raised, no record is
\* returned and no value is reported; the call ends by raising.
C13_ThreadFailurePropagates ==
    (mode = "threading" /\
     \E w \in 1..Len(futures) : futures[w].state = "failed") =>
        /\ pc # "returned"
        /\ metrics = NoMetrics
        /\ \A w \in 1..(nxt - 1) : futures[w].state = "done"

\* the second chunk raised after the partial of the first had been added
C13_Witness ==
    /\ mode = "threading" /\ pc = "raised"
    /\ Len(futures) >= 3
    /\ futures[2].state = "failed"
    /\ summed = <<1>>
    /\ metrics = NoMetrics

\* the sum of the values of the first n futures
RECURSIVE CollectedValue(_)
CollectedValue(n) ==
    IF n = 0 THEN 0 ELSE CollectedValue(n - 1) + futures[n].value

Delivered(w) ==
    Cardinality({n \in 1..Len(result_list) : result_list[n].chunk = w})

\* C15: in calculate_multiprocessing each started process that completes
\* its chunk delivers exactly one partial to the shared list (a running or
\* failed one delivers none), the sum consumes each delivered partial
\* exactly once, and when all workers succeed the number of partials summed
\* is the number of processes started.
C15_ExactlyOnce ==
    mode = "multiprocessing" =>
        /\ \A w \in 1..Len(processes) :
              Delivered(w) =
                  IF processes[w].state \in {"exited", "joined"} THEN 1 ELSE 0
        /\ \A n \in 1..Len(result_list) :
              /\ result_list[n].chunk \in 1..Len(processes)
              /\ result_list[n].partial =
                    calculate_chunk(processes[result_list[n].chunk].start,
                                    processes[result_list[n].chunk].end)
        /\ pc \in {"mp_summed", "returned"} =>
              /\ Len(summed) = Len(result_list)
              /\ \A n \in 1..Len(summed) : summed[n] = result_list[n].chunk
              /\ \A a, b \in 1..Len(summed) : a # b => summed[a] # summed[b]
              /\ result = SumFrom(0, result_list, 1)
              /\ (\A w \in 1..Len(processes) : processes[w].state = "joined")
                    => Len(summed) = Len(processes)

C15_Witness ==
    /\ mode = "multiprocessing" /\ pc = "returned"
    /\ Len(processes) >= 3
    /\ \A w \in 1..Len(processes) : processes[w].state = "joined"
    /\ Len(summed) = Len(processes)
    /\ summed[1] = 3

\* the workers that are started (or queued) and not yet finished
Active ==
    {w \in 1..Len(Dispatched) : Dispatched[w].state \in {"pending", "running"}}

\* C16: during a threaded or process call at most
\* N = min(available_parallelism, 8) workers are started and not finished,
\* and at most N chunks are dispatched over the whole call.
C16_BoundedWorkers ==
    Parallel =>
        LET N == IF cpu_count <= 8 THEN cpu_count ELSE 8
        IN  /\ Cardinality(Active) <= N
            /\ Len(Dispatched) <= N
            /\ t <= N

\* the range is longer than the pool: all N workers are running at once
C16_Witness ==
    /\ Parallel
    /\ total_range > num_threads
    /\ Len(Dispatched) = num_threads
    /\ num_threads >= 2
    /\ Cardinality(Active) = num_threads
    /\ \A w \in Active : Dispatched[w].state = "running"

\* the call has ended, by returning a record or by raising
Finished == pc \in {"returned", "raised"}

\* C17: under fair scheduling every call on a valid range eventually
\* finishes, returning a record or failing; the join-all barrier of the
\* threaded and process strategies is eventually passed.
C17_Terminates == ValidRange ~> Finished

\* a parallel call on a valid range that has passed its barrier
C17_Witness ==
    /\ ValidRange /\ Parallel /\ pc = "returned"
    /\ Len(Dispatched) >= 2
    /\ nxt = Len(Dispatched) + 1

\* C18: the dispatched chunks are contiguous and ascending from lower, do
\* not overlap and do not pass upper; they cover exactly the prefix
\* lower .. lower + min(total, N * chunk_size) - 1; when total >= N the
\* uncovered indices are the trailing total - N * (total div N), at most
\* N - 1.
C18_PrefixCoverage ==
    DispatchDone =>
        LET N  == IF cpu_count <= 8 THEN cpu_count ELSE 8
            cs == IF total_range \div N >= 1 THEN total_range \div N ELSE 1
            covered_len == IF total_range <= N * cs THEN total_range ELSE N * cs
        IN  /\ Len(Dispatched) >= 1 => Dispatched[1].start = i
            /\ \A n \in 1..Len(Dispatched) :
                  /\ Dispatched[n].start <= Dispatched[n].end
                  /\ Dispatched[n].end <= j
                  /\ n > 1 => Dispatched[n].start = Dispatched[n - 1].end + 1
            /\ Covered = i..(i + covered_len - 1)
            /\ total_range >= N =>
                  /\ Cardinality((i..j) \ Covered) = total_range - N * (total_range \div N)
                  /\ Cardinality((i..j) \ Covered) <= N - 1
                  /\ \A x \in (i..j) \ Covered : \A y \in Covered : x > y

\* a valid range whose last indices are left uncovered
C18_Witness ==
    /\ DispatchDone /\ ValidRange
    /\ total_range > num_threads
    /\ Len(Dispatched) = num_threads
    /\ Covered # {}
    /\ (i..j) \ Covered # {}
====
